---------------------------- MODULE Spec2Model ----------------------------
(***************************************************************************)
(* Harmonic cascade of the HIFU demos (src/demo/hifu).                     *)
(*                                                                         *)
(* Every demo is a script: an incident field P[0], then a loop             *)
(*   for i_harm in range(1, n_harm)                                        *)
(* that assembles the kernel of harmonic i_harm+1, builds the quadratic    *)
(* source term xIn from the earlier harmonics with an if/elif ladder,      *)
(* applies the volume potential and stores the result in the history P.    *)
(* The variants differ in what else a step does:                           *)
(*   "convergence"  domain_convergence_transducer.py   (domain study)      *)
(*   "interp"       transducer_nonlinear_homogeneous_interpolation.py      *)
(*                  (grid refinement, interpolation of the history)        *)
(*   "symmetric"    transducer_symmetric_homogeneous.py                    *)
(*   "scatter"      transducer_nonlinear_scatter.py    (sphere)            *)
(*   "slab"         transducer_nonlinear_slab.py       (slab)              *)
(*                                                                         *)
(* A field of the cascade is modelled by its provenance: the order it      *)
(* belongs to, the grid it is sampled on, the kernel that produced it and  *)
(* the source term it was computed from.  A source term is the integer     *)
(* scalar the code writes in front of beta*omega^2/(rho*c^4) and the       *)
(* products P[i]*P[j] inside the parentheses, each with its inner          *)
(* multiplicity and with the grids its two operands are sampled on.        *)
(*                                                                         *)
(* restrict_domain and convergence_domain_size are modelled on concrete    *)
(* amplitude fields over a small voxel grid (specification SpecDomain).    *)
(*                                                                         *)
(* A grid is its spacing, extents, voxel counts and the x of its first and *)
(* last voxel centre, in integer units (section "Grid geometry").          *)
(*                                                                         *)
(* The volume potential itself (Toeplitz kernel, circulant embedding,      *)
(* masked matrix-vector product) and the scattering solve and merge of one *)
(* order are modelled on integer fields over a small voxel grid            *)
(* (specifications SpecOperator and SpecMerge).                            *)
(***************************************************************************)
EXTENDS Integers, Sequences, FiniteSets

VARIABLES
    variant,      \* which script runs
    n_harm,       \* "How many harmonics to compute"
    i_harm,       \* loop variable of the cascade (0 before the loop)
    pc,           \* position in the script
    k2,           \* harmonic number i_harm+1 of the wavenumber k2
    r,            \* current grid: number of refinements it went through
    points2,      \* grid whose sample points points2 holds (-1: unbound)
    refined,      \* whether this iteration took the refinement branch
    circ_op,      \* kernel: [k, grid]
    xIn,          \* source term
    P,            \* history of total fields, indexed by order from 0
    P_inc,        \* scatter variants: incident part per order
    P_sca,        \* scatter variants: scattered part per order
    Mr,           \* scatter variants: harmonic number the contrast was set at
    interp_funs,  \* interp variant: interpolator per order
    X_AXIS,       \* interp variant: on-axis coordinates per order
    xMinVals,     \* convergence variant: result of the last study
    pickled,      \* convergence variant: harmonics whose study was saved
    grids,        \* geometry of the grid of each refinement level, from 0
    err,          \* the exception that ended the script ("none" while it runs)
    Mr_box,       \* scatter variants: harmonic number Mr_box was set at
    vie,          \* scatter variants: the vie_solver call of each order
    f_rhs,        \* study: source amplitudes per voxel
    i_tol,        \* study: loop variable of convergence_domain_size
    dpc,          \* study: position in convergence_domain_size
    P_trim,       \* study: trimmed source of the last restrict_domain call
    boxIdx,       \* study: index bounds found by each restrict_domain call
    boxVals,      \* study: xMinVals, xMaxVals, yMinVals, yMaxVals per tolerance
    mvpArgs,      \* study: the arguments mvp was applied to, per tolerance
    toep_op,      \* operator: Toeplitz kernel, a number per voxel offset
    circ_emb,     \* operator: its circulant embedding, twice the size per axis
    f1,           \* operator: a field, a number per voxel
    f2,           \* operator: a second field
    sa,           \* operator: scalar in front of f1
    sb,           \* operator: scalar in front of f2
    out1,         \* operator: mvp(f1)
    out2,         \* operator: mvp(f2)
    out12,        \* operator: mvp(sa*f1 + sb*f2)
    opc,          \* operator: position
    refInd,       \* merge: refractive index of the scatterer
    idx_scat,     \* merge: voxels of the scatterer
    k_num,        \* merge: harmonic number of the wavenumber
    perm_box,     \* merge: Mr_box, the contrast per voxel of the box
    J,            \* merge: induced source returned by vie_solver, on the box
    T_circ,       \* merge: embedding of T = k**2 * volume_potential(k, r)
    perm,         \* merge: Mr, the contrast per voxel of the domain
    J_domain,     \* merge: J extended to the domain
    u_inc,        \* merge: incident field of the order, a number per voxel
    u_sca,        \* merge: scattered field
    u_tot,        \* merge: total field
    mpc           \* merge: position

cascadeVars == <<variant, n_harm, i_harm, pc, k2, r, points2, refined, circ_op,
                 xIn, P, P_inc, P_sca, Mr, interp_funs, X_AXIS, xMinVals,
                 pickled, grids, err, Mr_box, vie>>
domainVars == <<f_rhs, i_tol, dpc, P_trim, boxIdx, boxVals, mvpArgs>>
operVars == <<toep_op, circ_emb, f1, f2, sa, sb, out1, out2, out12, opc>>
mergeVars == <<refInd, idx_scat, k_num, perm_box, J, T_circ, perm, J_domain,
               u_inc, u_sca, u_tot, mpc>>
vars == <<cascadeVars, domainVars, operVars, mergeVars>>

---------------------------------------------------------------------------
(* Bounds of the model *)

\* largest n_harm tried
MaxHarm == 9

\* voxels of the study grid along x, y and z
DimL == 2
DimM == 2
DimN == 2

\* amplitude levels of a study source: level e > 0 is the amplitude 4^(e-1)
MaxLevel == 3

\* how many of the tolerances of TOL, from the first, a study runs through
NTol == 4

\* most voxels of the first grid along an axis
MaxVox == 3

\* voxels along x, y and z of the grid the operator is applied on
OpL == 3
OpM == 2
OpN == 1

\* fewest voxels of a grid along an axis
MinVox == 2

Variants == {"convergence", "interp", "symmetric", "scatter", "slab"}
ScatterVariants == {"scatter", "slab"}

---------------------------------------------------------------------------
(* Fields and source terms *)

NoGrid == -1

\* xIn before its first assignment
NoSource == [order |-> 0, scalar |-> 0, terms |-> {}, weight |-> "none",
             coef |-> "none"]

\* an entry of np.zeros((n_harm, L, M, N)) that has not been assigned
ZeroField == [order |-> -1, grid |-> NoGrid, k |-> 0, kgrid |-> NoGrid,
              src |-> NoSource, part |-> "zero", Mr |-> 0]

\* p.reshape(L, M, N, order='F'): the incident first harmonic on grid 0
IncidentField == [order |-> 0, grid |-> 0, k |-> 1, kgrid |-> NoGrid,
                  src |-> NoSource, part |-> "incident", Mr |-> 0]

\* the product P[i] * P[j] taken m times, both operands read from the history
Prod(hist, i, j, m) ==
    [i |-> i, j |-> j, mult |-> m, gi |-> hist[i].grid, gj |-> hist[j].grid,
     parti |-> hist[i].part, partj |-> hist[j].part]

\* the product of interp_funs[i](points2) and interp_funs[j](points2)
ProdInterp(pts, i, j, m) ==
    [i |-> i, j |-> j, mult |-> m, gi |-> pts, gj |-> pts,
     parti |-> "interpolated", partj |-> "interpolated"]

Source(n, s, ts, w, c) ==
    [order |-> n, scalar |-> s, terms |-> ts, weight |-> w, coef |-> c]

---------------------------------------------------------------------------
(* The if/elif ladders that build xIn.  An order with no branch leaves xIn *)
(* as the previous iteration set it: the ladders have no else.             *)

\* xIn_convergence with the scalars (n+1)^2 and no halving
xIn_convergence_square(n, hist, old) ==
    CASE n = 1 -> Source(1, -4, {Prod(hist, 0, 0, 1)}, "none", "scalar")
      [] n = 2 -> Source(2, -9, {Prod(hist, 0, 1, 2)}, "none", "scalar")
      [] n = 3 -> Source(3, -16, {Prod(hist, 1, 1, 1), Prod(hist, 0, 2, 2)},
                         "none", "scalar")
      [] n = 4 -> Source(4, -25, {Prod(hist, 0, 3, 2), Prod(hist, 1, 2, 2)},
                         "none", "scalar")
      [] OTHER -> old

\* domain_convergence_transducer.py
xIn_convergence(n, hist, old) ==
    CASE n = 1 -> Source(1, -2, {Prod(hist, 0, 0, 1)}, "none", "scalar")
      [] n = 2 -> Source(2, -9, {Prod(hist, 0, 1, 1)}, "none", "scalar")
      [] n = 3 -> Source(3, -8, {Prod(hist, 1, 1, 1), Prod(hist, 0, 2, 2)},
                         "none", "scalar")
      [] n = 4 -> Source(4, -25, {Prod(hist, 0, 3, 1), Prod(hist, 1, 2, 1)},
                         "none", "scalar")
      [] OTHER -> old

\* xIn_interp with the square P[2]**2 of order 5 left out
xIn_interp_no_square(n, hist, pts, old) ==
    CASE n = 1 -> Source(1, -2, {Prod(hist, 0, 0, 1)}, "none", "scalar")
      [] n = 2 -> Source(2, -9, {ProdInterp(pts, 0, 1, 1)}, "none", "scalar")
      [] n = 3 -> Source(3, -8, {ProdInterp(pts, 1, 1, 1),
                                 ProdInterp(pts, 0, 2, 2)}, "none", "scalar")
      [] n = 4 -> Source(4, -25, {Prod(hist, 0, 3, 1), Prod(hist, 1, 2, 1)},
                         "none", "scalar")
      [] n = 5 -> Source(5, -18, {Prod(hist, 0, 4, 2), Prod(hist, 1, 3, 2)},
                         "none", "scalar")
      [] n = 6 -> Source(6, -49, {Prod(hist, 0, 5, 1), Prod(hist, 1, 4, 1),
                                  Prod(hist, 2, 3, 1)}, "none", "scalar")
      [] OTHER -> old

\* xIn_interp with the square P[2]**2 of order 5 weighted as the cross terms
xIn_interp_whole_square(n, hist, pts, old) ==
    CASE n = 1 -> Source(1, -2, {Prod(hist, 0, 0, 1)}, "none", "scalar")
      [] n = 2 -> Source(2, -9, {ProdInterp(pts, 0, 1, 1)}, "none", "scalar")
      [] n = 3 -> Source(3, -8, {ProdInterp(pts, 1, 1, 1),
                                 ProdInterp(pts, 0, 2, 2)}, "none", "scalar")
      [] n = 4 -> Source(4, -25, {Prod(hist, 0, 3, 1), Prod(hist, 1, 2, 1)},
                         "none", "scalar")
      [] n = 5 -> Source(5, -36, {Prod(hist, 0, 4, 1), Prod(hist, 1, 3, 1),
                                  Prod(hist, 2, 2, 1)}, "none", "scalar")
      [] n = 6 -> Source(6, -49, {Prod(hist, 0, 5, 1), Prod(hist, 1, 4, 1),
                                  Prod(hist, 2, 3, 1)}, "none", "scalar")
      [] OTHER -> old

\* transducer_nonlinear_homogeneous_interpolation.py: orders 2 and 3 read the
\* history through the interpolators, evaluated at points2; the others read
\* the stored arrays
xIn_interp(n, hist, pts, old) ==
    CASE n = 1 -> Source(1, -2, {Prod(hist, 0, 0, 1)}, "none", "scalar")
      [] n = 2 -> Source(2, -9, {ProdInterp(pts, 0, 1, 1)}, "none", "scalar")
      [] n = 3 -> Source(3, -8, {ProdInterp(pts, 1, 1, 1),
                                 ProdInterp(pts, 0, 2, 2)}, "none", "scalar")
      [] n = 4 -> Source(4, -25, {Prod(hist, 0, 3, 1), Prod(hist, 1, 2, 1)},
                         "none", "scalar")
      [] n = 5 -> Source(5, -18, {Prod(hist, 0, 4, 2), Prod(hist, 1, 3, 2),
                                  Prod(hist, 2, 2, 1)}, "none", "scalar")
      [] n = 6 -> Source(6, -49, {Prod(hist, 0, 5, 1), Prod(hist, 1, 4, 1),
                                  Prod(hist, 2, 3, 1)}, "none", "scalar")
      [] OTHER -> old

\* transducer_symmetric_homogeneous.py: every branch also multiplies by
\* np.abs(r[:, :, :, 1]); the branches from order 3 on by np.pi as well.
\* (As committed the script stops at an interactive embed() and exit() in
\* front of its loop; the loop is modelled as it is written.)
xIn_symmetric(n, hist, old) ==
    CASE n = 1 -> Source(1, -2, {Prod(hist, 0, 0, 1)}, "absy", "scalar")
      [] n = 2 -> Source(2, -9, {Prod(hist, 0, 1, 1)}, "absy", "scalar")
      [] n = 3 -> Source(3, -8, {Prod(hist, 1, 1, 1), Prod(hist, 0, 2, 2)},
                         "absy_pi", "scalar")
      [] n = 4 -> Source(4, -25, {Prod(hist, 0, 3, 1), Prod(hist, 1, 2, 1)},
                         "absy_pi", "scalar")
      [] n = 5 -> Source(5, -18, {Prod(hist, 0, 4, 2), Prod(hist, 1, 3, 2),
                                  Prod(hist, 2, 2, 1)}, "absy_pi", "scalar")
      [] n = 6 -> Source(6, -49, {Prod(hist, 0, 5, 1), Prod(hist, 1, 4, 1),
                                  Prod(hist, 2, 3, 1)}, "absy_pi", "scalar")
      [] OTHER -> old

\* transducer_nonlinear_scatter.py
xIn_scatter(n, hist, old) ==
    CASE n = 1 -> Source(1, -2, {Prod(hist, 0, 0, 1)}, "none", "scalar")
      [] n = 2 -> Source(2, -9, {Prod(hist, 0, 1, 1)}, "none", "scalar")
      [] n = 3 -> Source(3, -8, {Prod(hist, 1, 1, 1), Prod(hist, 0, 2, 2)},
                         "none", "scalar")
      [] n = 4 -> Source(4, -25, {Prod(hist, 0, 3, 1), Prod(hist, 1, 2, 1)},
                         "none", "scalar")
      [] OTHER -> old

\* xIn_slab with the factor 2 of the cross term of order 3 left out
xIn_slab_no_cross(n, hist, old) ==
    CASE n = 1 -> Source(1, -2, {Prod(hist, 0, 0, 1)}, "none", "array")
      [] n = 2 -> Source(2, -9, {Prod(hist, 0, 1, 1)}, "none", "array")
      [] n = 3 -> Source(3, -8, {Prod(hist, 1, 1, 1), Prod(hist, 0, 2, 1)},
                         "none", "array")
      [] n = 4 -> Source(4, -25, {Prod(hist, 0, 3, 1), Prod(hist, 1, 2, 1)},
                         "none", "array")
      [] OTHER -> old

\* transducer_nonlinear_slab.py: BETA, RHO and C are per-voxel arrays
xIn_slab(n, hist, old) ==
    CASE n = 1 -> Source(1, -2, {Prod(hist, 0, 0, 1)}, "none", "array")
      [] n = 2 -> Source(2, -9, {Prod(hist, 0, 1, 1)}, "none", "array")
      [] n = 3 -> Source(3, -8, {Prod(hist, 1, 1, 1), Prod(hist, 0, 2, 2)},
                         "none", "array")
      [] n = 4 -> Source(4, -25, {Prod(hist, 0, 3, 1), Prod(hist, 1, 2, 1)},
                         "none", "array")
      [] OTHER -> old

\* the orders that have a branch in the ladder of a variant
Tabulated(v) == IF v \in {"interp", "symmetric"} THEN 1..6 ELSE 1..4

\* Power of two function. Used when subdividing mesh
\* (n != 0) and (n & (n-1) == 0), on the bits of n
RECURSIVE BitAnd(_, _)
BitAnd(a, b) ==
    IF a = 0 \/ b = 0 THEN 0
    ELSE (a % 2) * (b % 2) + 2 * BitAnd(a \div 2, b \div 2)

\* the test the script has commented out: (i_harm % 2) == 0
is_even(n) == n % 2 = 0

is_power_of_two(n) == (n # 0) /\ (BitAnd(n, n - 1) = 0)

---------------------------------------------------------------------------
(* The history *)

\* the assignment one slot too low
StoreFieldBelow(h, n, fld) == [h EXCEPT ![IF n > 0 THEN n - 1 ELSE n] = fld]

\* P[n] = fld on the preallocated array
StoreField(h, n, fld) == [h EXCEPT ![n] = fld]

\* P.append(fld)
AppendField(h, fld) ==
    [m \in 0..Cardinality(DOMAIN h) |-> IF m \in DOMAIN h THEN h[m] ELSE fld]

\* np.zeros((n_harm, L, M, N)) with entry 0 set to first
ZerosWith(n, first) == [m \in 0..(n - 1) |-> IF m = 0 THEN first ELSE ZeroField]

\* mvp(xInVec).reshape(L, M, N): the volume potential with kernel circ
\* applied to the source src, on the grid g in force
mvp(n, g, circ, src, part) ==
    [order |-> n, grid |-> g, k |-> circ.k, kgrid |-> circ.grid,
     src |-> src, part |-> part, Mr |-> 0]

\* mvp_potential_x_perm(J_domain, circ, idx_all, Mr): the scattered field of
\* order n, from the solve with the incident part inc and contrast set at
\* harmonic number m
Scattered(n, g, kk, m) ==
    [order |-> n, grid |-> g, k |-> kk, kgrid |-> g, src |-> NoSource,
     part |-> "scattered", Mr |-> m]

\* P_inc[n] + P_sca[n]
Total(inc, sca) == [inc EXCEPT !.part = "total", !.Mr = sca.Mr]

---------------------------------------------------------------------------
(* Grid geometry                                                           *)
(*                                                                         *)
(* Lengths are integers: the first spacing is Dx0 units, a power of two    *)
(* large enough for every spacing and half spacing of the grids a run of   *)
(* at most MaxHarm orders builds to be a whole number of units.            *)

Dx0 == 2 ^ (MaxHarm + 2)

\* x of the first voxel centre of the first grid (the origin of the units)
x_start == 0

\* r, L, M, N = generatedomain(dx, wx, wy, wz): a regular lattice of spacing
\* dx covering the extents, centred on the origin; x0 and xN are the x of
\* the first and last voxel centre, the y and z centres lie in -yN..yN and
\* -zN..zN
generatedomain(dx, wx, wy, wz) ==
    LET L == wx \div dx
        M == wy \div dx
        N == wz \div dx
    IN  [dx |-> dx, wx |-> wx, wy |-> wy, wz |-> wz, L |-> L, M |-> M,
         N |-> N, x0 |-> 0 - (((L - 1) * dx) \div 2),
         xN |-> ((L - 1) * dx) \div 2, yN |-> ((M - 1) * dx) \div 2,
         zN |-> ((N - 1) * dx) \div 2]

\* r[:, :, :, 0] = r[:, :, :, 0] - r[0, 0, 0, 0] + x_start
ShiftToStart(g) == [g EXCEPT !.x0 = x_start, !.xN = g.xN - g.x0 + x_start]

\* the first grid of a script with L0 x M0 x M0 voxels
FirstGrid(L0, M0) ==
    ShiftToStart(generatedomain(Dx0, L0 * Dx0, M0 * Dx0, M0 * Dx0))

\* the last voxel centres made to coincide
AdjustFarCentre(g2, g) ==
    LET s == 0 - g2.xN + g.xN
    IN  [g2 EXCEPT !.x0 = g2.x0 + s, !.xN = g2.xN + s]

\* the near faces of the first voxels made to coincide
AdjustNearEnd(g2, g) ==
    LET s == 0 - g2.x0 + g.x0 - (g.dx \div 2) + (g2.dx \div 2)
    IN  [g2 EXCEPT !.x0 = g2.x0 + s, !.xN = g2.xN + s]

\* "Adjust r2 so that the far ends of r-dx and r2 coincide":
\* r2[:, :, :, 0] = r2[:, :, :, 0] - r2[-1, 0, 0, 0] + r[-1, 0, 0, 0]
\*                  - dx/2 - dx2/2, with dx the spacing of r
AdjustFarEnd(g2, g) ==
    LET s == 0 - g2.xN + g.xN - (g.dx \div 2) - (g2.dx \div 2)
    IN  [g2 EXCEPT !.x0 = g2.x0 + s, !.xN = g2.xN + s]

\* the spacing halved over the same extents
RefinedSameExtents(g) ==
    AdjustFarEnd(generatedomain(g.dx \div 2, g.wx, g.wy, g.wz), g)

\* dx2 = dx/2; wx2 = wx/2; wy2 = wy/2; wz2 = wy2; generatedomain; the shift
Refined(g) ==
    AdjustFarEnd(generatedomain(g.dx \div 2, g.wx \div 2, g.wy \div 2,
                                g.wy \div 2), g)

\* the outer face of the last voxel along x
FarFace(g) == g.xN + (g.dx \div 2)

---------------------------------------------------------------------------
(* The cascade scripts, statement by statement *)

Empty == [m \in {} |-> ZeroField]

\* the study variables while a cascade runs
DomainIdle ==
    /\ f_rhs = [v \in {} |-> 0]
    /\ i_tol = 0
    /\ dpc = "idle"
    /\ P_trim = [v \in {} |-> 0]
    /\ boxIdx = <<>>
    /\ boxVals = <<>>
    /\ mvpArgs = <<>>

\* the operator variables while a cascade or a study runs
OperatorIdle ==
    /\ toep_op = [v \in {} |-> 0]
    /\ circ_emb = [v \in {} |-> 0]
    /\ f1 = [v \in {} |-> 0]
    /\ f2 = [v \in {} |-> 0]
    /\ sa = 0
    /\ sb = 0
    /\ out1 = [v \in {} |-> 0]
    /\ out2 = [v \in {} |-> 0]
    /\ out12 = [v \in {} |-> 0]
    /\ opc = "idle"

\* the merge variables while a cascade, a study or the operator runs
MergeIdle ==
    /\ refInd = 0
    /\ idx_scat = {}
    /\ k_num = 0
    /\ perm_box = [v \in {} |-> 0]
    /\ J = [v \in {} |-> 0]
    /\ T_circ = [v \in {} |-> 0]
    /\ perm = [v \in {} |-> 0]
    /\ J_domain = [v \in {} |-> 0]
    /\ u_inc = [v \in {} |-> 0]
    /\ u_sca = [v \in {} |-> 0]
    /\ u_tot = [v \in {} |-> 0]
    /\ mpc = "idle"

\* the state in front of the first-harmonic scattering (scatter variants) or
\* of the loop (the others)
CascadeInit ==
    /\ variant \in Variants
    /\ n_harm \in 1..MaxHarm
    /\ i_harm = 0
    /\ pc = IF variant \in ScatterVariants THEN "scatter0" ELSE "head"
    /\ k2 = 1
    /\ r = 0
    /\ points2 = NoGrid
    /\ refined = FALSE
    /\ circ_op = [k |-> 0, grid |-> NoGrid]
    /\ xIn = NoSource
    /\ P = CASE variant = "interp" -> AppendField(Empty, IncidentField)
             [] variant \in ScatterVariants -> [m \in 0..(n_harm - 1) |-> ZeroField]
             [] OTHER -> ZerosWith(n_harm, IncidentField)
    /\ P_inc = IF variant \in ScatterVariants
               THEN ZerosWith(n_harm, IncidentField) ELSE Empty
    /\ P_sca = IF variant \in ScatterVariants
               THEN [m \in 0..(n_harm - 1) |-> ZeroField] ELSE Empty
    /\ Mr = 0
    /\ interp_funs = IF variant = "interp" THEN <<[order |-> 0, grid |-> 0]>>
                     ELSE <<>>
    /\ X_AXIS = IF variant = "interp" THEN <<0>> ELSE <<>>
    /\ xMinVals = NoSource
    /\ pickled = {}
    /\ \E L0 \in MinVox..MaxVox, M0 \in MinVox..MaxVox :
           grids = [g \in {0} |-> FirstGrid(L0, M0)]
    /\ err = "none"
    /\ Mr_box = 0
    /\ vie = Empty

Init == CascadeInit /\ DomainIdle /\ OperatorIdle /\ MergeIdle

\* how the iterative solve inside vie_solver may end
SolverOutcomes == {"converged", "not converged"}

\* sol, J, u_sca = vie_solver(Mr_box, r_box, idx_scat_box, P_inc[n][idx_scat],
\* k): the call with the wavenumber of harmonic number kk and the box
\* contrast set at harmonic number m; info is how the solve ended, seen is
\* what the three values bound by the script tell of it
Solve(kk, m, info) == [k |-> kk, Mr_box |-> m, info |-> info, seen |-> "nothing"]

\* the contrast in force for the solve of harmonic number h: the slab script
\* resets Mr_box and Mr from refInd2, the sphere script keeps them
Contrast(v, old, h) == IF v = "slab" THEN h ELSE old

\* first-harmonic scattering solve and merge: Mr[idx_scat] = refInd**2 - 1,
\* P_sca[0] = mvp_potential_x_perm(...), P[0] = P_inc[0] + P_sca[0]
Scatter0 ==
    /\ pc = "scatter0"
    /\ Mr_box' = 1
    /\ \E info \in SolverOutcomes :
           vie' = AppendField(vie, Solve(1, Mr_box', info))
    /\ Mr' = 1
    /\ P_sca' = StoreField(P_sca, 0, Scattered(0, r, 1, 1))
    /\ P' = StoreField(P, 0, Total(P_inc[0], P_sca'[0]))
    /\ pc' = "head"
    /\ UNCHANGED domainVars
    /\ UNCHANGED operVars
    /\ UNCHANGED mergeVars
    /\ UNCHANGED <<grids, err>>
    /\ UNCHANGED <<variant, n_harm, i_harm, k2, r, points2, refined, circ_op,
                   xIn, P_inc, interp_funs, X_AXIS, xMinVals, pickled>>

\* a loop in steps of two
LoopNextSkips ==
    /\ pc = "head"
    /\ i_harm + 1 < n_harm
    /\ i_harm' = IF i_harm + 2 < n_harm THEN i_harm + 2 ELSE i_harm + 1
    /\ k2' = i_harm' + 1
    /\ refined' = FALSE
    /\ pc' = IF variant = "interp" THEN "refine" ELSE "kernel"
    /\ UNCHANGED domainVars
    /\ UNCHANGED operVars
    /\ UNCHANGED mergeVars
    /\ UNCHANGED <<grids, err, Mr_box, vie>>
    /\ UNCHANGED <<variant, n_harm, r, points2, circ_op, xIn, P, P_inc, P_sca,
                   Mr, interp_funs, X_AXIS, xMinVals, pickled>>

\* for i_harm in range(1, n_harm): f2 = (i_harm + 1) * f1; k2 = ...
LoopNext ==
    /\ pc = "head"
    /\ i_harm + 1 < n_harm
    /\ i_harm' = i_harm + 1
    /\ k2' = i_harm' + 1
    /\ refined' = FALSE
    /\ pc' = IF variant = "interp" THEN "refine" ELSE "kernel"
    /\ UNCHANGED domainVars
    /\ UNCHANGED operVars
    /\ UNCHANGED mergeVars
    /\ UNCHANGED <<grids, err, Mr_box, vie>>
    /\ UNCHANGED <<variant, n_harm, r, points2, circ_op, xIn, P, P_inc, P_sca,
                   Mr, interp_funs, X_AXIS, xMinVals, pickled>>

\* the range is exhausted
LoopExit ==
    /\ pc = "head"
    /\ ~(i_harm + 1 < n_harm)
    /\ pc' = "done"
    /\ UNCHANGED domainVars
    /\ UNCHANGED operVars
    /\ UNCHANGED mergeVars
    /\ UNCHANGED <<grids, err, Mr_box, vie>>
    /\ UNCHANGED <<variant, n_harm, i_harm, k2, r, points2, refined, circ_op,
                   xIn, P, P_inc, P_sca, Mr, interp_funs, X_AXIS, xMinVals,
                   pickled>>

\* if i_harm != 1: if is_power_of_two(i_harm):
RefinesAt(n) == n # 1 /\ is_power_of_two(n)

\* the refinement branch: generatedomain(dx/2, wx/2, wy/2, wz2), the shift of
\* r2, points2 = r2.reshape(...), r = r2, X, Y, Z, dx, wx, wy, wz
RefineGrid ==
    /\ pc = "refine"
    /\ RefinesAt(i_harm)
    /\ r' = r + 1
    /\ grids' = [g \in 0..(r + 1) |->
                   IF g \in DOMAIN grids THEN grids[g] ELSE Refined(grids[r])]
    /\ points2' = r + 1
    /\ refined' = TRUE
    /\ pc' = "kernel"
    /\ UNCHANGED domainVars
    /\ UNCHANGED operVars
    /\ UNCHANGED mergeVars
    /\ UNCHANGED <<err, Mr_box, vie>>
    /\ UNCHANGED <<variant, n_harm, i_harm, k2, circ_op, xIn, P, P_inc, P_sca,
                   Mr, interp_funs, X_AXIS, xMinVals, pickled>>

\* a step past the branch that still halves the grid in force
KeepGridHalved ==
    /\ pc = "refine"
    /\ ~RefinesAt(i_harm)
    /\ grids' = [grids EXCEPT ![r] = Refined(grids[r])]
    /\ pc' = "kernel"
    /\ UNCHANGED domainVars
    /\ UNCHANGED operVars
    /\ UNCHANGED mergeVars
    /\ UNCHANGED <<err, Mr_box, vie>>
    /\ UNCHANGED <<variant, n_harm, i_harm, k2, r, points2, refined, circ_op,
                   xIn, P, P_inc, P_sca, Mr, interp_funs, X_AXIS, xMinVals,
                   pickled>>

\* the branch is not taken
KeepGrid ==
    /\ pc = "refine"
    /\ ~RefinesAt(i_harm)
    /\ pc' = "kernel"
    /\ UNCHANGED domainVars
    /\ UNCHANGED operVars
    /\ UNCHANGED mergeVars
    /\ UNCHANGED <<grids, err, Mr_box, vie>>
    /\ UNCHANGED <<variant, n_harm, i_harm, k2, r, points2, refined, circ_op,
                   xIn, P, P_inc, P_sca, Mr, interp_funs, X_AXIS, xMinVals,
                   pickled>>

\* the kernel assembled once and kept for the later orders
AssembleKernelOnce ==
    /\ pc = "kernel"
    /\ circ_op' = IF circ_op.k = 0 THEN [k |-> k2, grid |-> r] ELSE circ_op
    /\ pc' = "source"
    /\ UNCHANGED domainVars
    /\ UNCHANGED operVars
    /\ UNCHANGED mergeVars
    /\ UNCHANGED <<grids, err, Mr_box, vie>>
    /\ UNCHANGED <<variant, n_harm, i_harm, k2, r, points2, refined, xIn, P,
                   P_inc, P_sca, Mr, interp_funs, X_AXIS, xMinVals, pickled>>

\* toep_op = volume_potential(k2, r); circ_op = circulant_embed_fftw(...)
AssembleKernel ==
    /\ pc = "kernel"
    /\ circ_op' = [k |-> k2, grid |-> r]
    /\ pc' = "source"
    /\ UNCHANGED domainVars
    /\ UNCHANGED operVars
    /\ UNCHANGED mergeVars
    /\ UNCHANGED <<grids, err, Mr_box, vie>>
    /\ UNCHANGED <<variant, n_harm, i_harm, k2, r, points2, refined, xIn, P,
                   P_inc, P_sca, Mr, interp_funs, X_AXIS, xMinVals, pickled>>

\* the ladders of the scattering scripts reading the incident history
LadderIncident(v, n, hist, pts, old) ==
    CASE v = "convergence" -> xIn_convergence(n, hist, old)
      [] v = "interp" -> xIn_interp(n, hist, pts, old)
      [] v = "symmetric" -> xIn_symmetric(n, hist, old)
      [] v = "scatter" -> xIn_scatter(n, P_inc, old)
      [] v = "slab" -> xIn_slab(n, P_inc, old)

\* the ladder of the running script
Ladder(v, n, hist, pts, old) ==
    CASE v = "convergence" -> xIn_convergence(n, hist, old)
      [] v = "interp" -> xIn_interp(n, hist, pts, old)
      [] v = "symmetric" -> xIn_symmetric(n, hist, old)
      [] v = "scatter" -> xIn_scatter(n, hist, old)
      [] v = "slab" -> xIn_slab(n, hist, old)

\* the shape (L, M, N) of an array sampled on the grid of level g; the
\* arrays allocated before the loop have the shape of the first grid
Shape(gs, g) ==
    LET lv == IF g = NoGrid THEN 0 ELSE g
    IN  <<gs[lv].L, gs[lv].M, gs[lv].N>>

\* numpy multiplies two arrays when on every axis the lengths are equal or
\* one of them is 1 (broadcast), and raises ValueError otherwise
Broadcasts(s1, s2) ==
    \A a \in 1..3 : s1[a] = s2[a] \/ s1[a] = 1 \/ s2[a] = 1

BroadcastShape(s1, s2) ==
    [a \in 1..3 |-> IF s1[a] = 1 THEN s2[a] ELSE s1[a]]

\* xIn of a branch and xInVec = xIn.reshape((L*M*N, 1)): every product is
\* formed and the sum has as many entries as the current grid has voxels
ShapesFit(src, gs, cur) ==
    LET size(sh) == sh[1] * sh[2] * sh[3]
    IN  \A t \in src.terms :
            /\ Broadcasts(Shape(gs, t.gi), Shape(gs, t.gj))
            /\ \A u \in src.terms :
                   Broadcasts(BroadcastShape(Shape(gs, t.gi), Shape(gs, t.gj)),
                              BroadcastShape(Shape(gs, u.gi), Shape(gs, u.gj)))
            /\ size(BroadcastShape(Shape(gs, t.gi), Shape(gs, t.gj))) =
                   size(Shape(gs, cur))

\* the interpolators the branch of order n of the interpolating script
\* evaluates at points2: interp_funs[0], ..., interp_funs[n - 1]
Queried(v, n) == IF v = "interp" /\ n \in {2, 3} THEN 0..(n - 1) ELSE {}

\* every sample point of the grid q lies within the axes X, Y, Z of the grid f
InDomain(q, f) ==
    /\ f.x0 <= q.x0
    /\ q.xN <= f.xN
    /\ q.yN <= f.yN
    /\ q.zN <= f.zN

\* RegularGridInterpolator((X, Y, Z), P[i], method='nearest'): bounds_error
\* is left at True, so a query with a point outside the axes raises
\* ValueError
InterpRaises(v, n, funs, pts, gs) ==
    \E i \in Queried(v, n) : ~InDomain(gs[pts], gs[funs[i + 1].grid])

\* "Create vector for matrix-vector product"
SourceTerm ==
    /\ pc = "source"
    /\ LET src == Ladder(variant, i_harm, P, points2, xIn)
       IN  IF InterpRaises(variant, i_harm, interp_funs, points2, grids)
           THEN /\ err' = "bounds"
                /\ pc' = "crashed"
                /\ xIn' = xIn
           ELSE IF ~ShapesFit(src, grids, r)
           THEN /\ err' = "shape"
                /\ pc' = "crashed"
                /\ xIn' = xIn
           ELSE /\ err' = err
                /\ pc' = IF variant = "convergence" THEN "study" ELSE "apply"
                /\ xIn' = src
    /\ UNCHANGED domainVars
    /\ UNCHANGED operVars
    /\ UNCHANGED mergeVars
    /\ UNCHANGED <<grids, Mr_box, vie>>
    /\ UNCHANGED <<variant, n_harm, i_harm, k2, r, points2, refined, circ_op,
                   P, P_inc, P_sca, Mr, interp_funs, X_AXIS, xMinVals, pickled>>

\* xMinVals = convergence_domain_size(xIn, mvp, circ_op, r, L, M, N,
\* i_harm+1, roc, k1), when every restrict_domain call finds a voxel
StudyReturns ==
    /\ pc = "study"
    /\ xMinVals' = xIn
    /\ pickled' = pickled \cup {i_harm + 1}
    /\ pc' = "apply"
    /\ UNCHANGED domainVars
    /\ UNCHANGED operVars
    /\ UNCHANGED mergeVars
    /\ UNCHANGED <<grids, err, Mr_box, vie>>
    /\ UNCHANGED <<variant, n_harm, i_harm, k2, r, points2, refined, circ_op,
                   xIn, P, P_inc, P_sca, Mr, interp_funs, X_AXIS>>

\* the same call when np.argwhere(rel_p > tol) is empty: np.min raises
StudyRaises ==
    /\ pc = "study"
    /\ err' = "argwhere"
    /\ pc' = "crashed"
    /\ UNCHANGED domainVars
    /\ UNCHANGED operVars
    /\ UNCHANGED mergeVars
    /\ UNCHANGED <<grids, Mr_box, vie>>
    /\ UNCHANGED <<variant, n_harm, i_harm, k2, r, points2, refined, circ_op,
                   xIn, P, P_inc, P_sca, Mr, interp_funs, X_AXIS, xMinVals,
                   pickled>>

\* "Perform matrix-vector product"
Apply ==
    /\ pc = "apply"
    /\ IF variant \in ScatterVariants
       THEN /\ P_inc' = StoreField(P_inc, i_harm,
                                   mvp(i_harm, r, circ_op, xIn, "incident"))
            /\ P' = P
            /\ pc' = "merge"
       ELSE /\ P' = IF variant = "interp"
                    THEN AppendField(P, mvp(i_harm, r, circ_op, xIn, "total"))
                    ELSE StoreField(P, i_harm,
                                    mvp(i_harm, r, circ_op, xIn, "total"))
            /\ P_inc' = P_inc
            /\ pc' = IF variant = "interp" THEN "axis" ELSE "head"
    /\ UNCHANGED domainVars
    /\ UNCHANGED operVars
    /\ UNCHANGED mergeVars
    /\ UNCHANGED <<grids, err, Mr_box, vie>>
    /\ UNCHANGED <<variant, n_harm, i_harm, k2, r, points2, refined, circ_op,
                   xIn, P_sca, Mr, interp_funs, X_AXIS, xMinVals, pickled>>

\* vie_solver, J_domain, P_sca[i_harm] = mvp_potential_x_perm(...),
\* P[i_harm] = P_inc[i_harm] + P_sca[i_harm]
ScatterMerge ==
    /\ pc = "merge"
    /\ Mr_box' = Contrast(variant, Mr_box, k2)
    /\ Mr' = Contrast(variant, Mr, k2)
    /\ \E info \in SolverOutcomes :
           vie' = AppendField(vie, Solve(k2, Mr_box', info))
    /\ P_sca' = StoreField(P_sca, i_harm, Scattered(i_harm, r, k2, Mr'))
    /\ P' = StoreField(P, i_harm, Total(P_inc[i_harm], P_sca'[i_harm]))
    /\ pc' = "head"
    /\ UNCHANGED domainVars
    /\ UNCHANGED operVars
    /\ UNCHANGED mergeVars
    /\ UNCHANGED <<grids, err>>
    /\ UNCHANGED <<variant, n_harm, i_harm, k2, r, points2, refined, circ_op,
                   xIn, P_inc, interp_funs, X_AXIS, xMinVals, pickled>>

\* the interpolator built on the axes of the first grid
AppendAxisFirstAxes ==
    /\ pc = "axis"
    /\ interp_funs' = Append(interp_funs, [order |-> i_harm, grid |-> 0])
    /\ X_AXIS' = Append(X_AXIS, r)
    /\ pc' = "head"
    /\ UNCHANGED domainVars
    /\ UNCHANGED operVars
    /\ UNCHANGED mergeVars
    /\ UNCHANGED <<grids, err, Mr_box, vie>>
    /\ UNCHANGED <<variant, n_harm, i_harm, k2, r, points2, refined, circ_op,
                   xIn, P, P_inc, P_sca, Mr, xMinVals, pickled>>

\* interp_funs.append(RegularGridInterpolator((X, Y, Z), P[i_harm], ...)),
\* X_AXIS.append(x_line), P_AXIS.append(...)
AppendAxis ==
    /\ pc = "axis"
    /\ interp_funs' = Append(interp_funs, [order |-> i_harm, grid |-> r])
    /\ X_AXIS' = Append(X_AXIS, r)
    /\ pc' = "head"
    /\ UNCHANGED domainVars
    /\ UNCHANGED operVars
    /\ UNCHANGED mergeVars
    /\ UNCHANGED <<grids, err, Mr_box, vie>>
    /\ UNCHANGED <<variant, n_harm, i_harm, k2, r, points2, refined, circ_op,
                   xIn, P, P_inc, P_sca, Mr, xMinVals, pickled>>

CascadeNext ==
    \/ Scatter0
    \/ LoopNext
    \/ LoopExit
    \/ RefineGrid
    \/ KeepGrid
    \/ AssembleKernel
    \/ SourceTerm
    \/ StudyReturns
    \/ StudyRaises
    \/ Apply
    \/ ScatterMerge
    \/ AppendAxis

Next == CascadeNext

Spec == Init /\ [][Next]_vars

\* a script that is not interrupted runs its next statement
SpecFair == Init /\ [][Next]_vars /\ WF_vars(Next)

---------------------------------------------------------------------------
(* restrict_domain and convergence_domain_size, on amplitudes             *)
(*                                                                         *)
(* A source is given by |f_rhs| per voxel, a natural number.  A tolerance  *)
(* is the numerator of a fraction over TolDen, so that                     *)
(*   |f|/max|f| > tol   is   |f| * TolDen > tol * max|f|.                  *)

Vox == (0..(DimL - 1)) \X (0..(DimM - 1)) \X (0..(DimN - 1))

Amp(e) == IF e = 0 THEN 0 ELSE 4 ^ (e - 1)

TolDen == 100000

\* TOL = 10**np.array([-0.5, -0.75, -1, ..., -4]), to five decimals
TOL == <<31623, 17783, 10000, 5623, 3162, 1778, 1000, 562, 316, 178, 100,
         56, 32, 18, 10>>

SetMax(S) == CHOOSE x \in S : \A y \in S : y <= x
SetMin(S) == CHOOSE x \in S : \A y \in S : x <= y

\* np.max(np.abs(f_rhs))
MaxAbs(f) == SetMax({f[v] : v \in DOMAIN f})

\* np.argwhere(rel_p > tol); a zero field gives rel_p = nan everywhere and
\* no voxel compares bigger
where_bigger(f, tol) ==
    LET top == MaxAbs(f)
    IN  {v \in DOMAIN f : f[v] * TolDen > tol * top}

\* the bounds with max_x_idx taken by np.min, as the line above it
IndexBoundsCopied(W) ==
    [min_x |-> SetMin({v[1] : v \in W}), max_x |-> SetMin({v[1] : v \in W}),
     min_y |-> SetMin({v[2] : v \in W}), max_y |-> SetMax({v[2] : v \in W}),
     min_z |-> SetMin({v[3] : v \in W}), max_z |-> SetMax({v[3] : v \in W})]

\* min_x_idx .. max_z_idx of the voxels in W (W not empty)
IndexBounds(W) ==
    [min_x |-> SetMin({v[1] : v \in W}), max_x |-> SetMax({v[1] : v \in W}),
     min_y |-> SetMin({v[2] : v \in W}), max_y |-> SetMax({v[2] : v \in W}),
     min_z |-> SetMin({v[3] : v \in W}), max_z |-> SetMax({v[3] : v \in W})]

\* whether index i is in the Python slice lo:hi
InSlice(i, lo, hi) == lo <= i /\ i < hi

\* P_trim = zeros; P_trim[min_x:max_x, min_y:max_y, min_z:max_z] = f_rhs[...]
Trim(f, b) ==
    [v \in DOMAIN f |->
        IF /\ InSlice(v[1], b.min_x, b.max_x)
           /\ InSlice(v[2], b.min_y, b.max_y)
           /\ InSlice(v[3], b.min_z, b.max_z)
        THEN f[v] ELSE 0]

\* r[i, 0, 0, 0] - r[0, 0, 0, 0] and r[0, j, 0, 1] - r[0, 0, 0, 1] in units
\* of dx: the lattice of generatedomain is regular
Coord(i) == i

\* restrict_domain(f_rhs, tol, r); raises when no voxel is bigger
restrict_domain(f, tol) ==
    LET W == where_bigger(f, tol)
    IN  IF W = {} THEN [raises |-> TRUE]
        ELSE LET b == IndexBounds(W)
             IN  [raises |-> FALSE, idx |-> b,
                  xMin |-> Coord(b.min_x), xMax |-> Coord(b.max_x),
                  yMin |-> Coord(b.min_y), yMax |-> Coord(b.max_y),
                  P_trim |-> Trim(f, b)]

\* the cascade variables while a study is looked at alone: the call at
\* order 1 of domain_convergence_transducer.py
CascadeIdle ==
    /\ variant = "convergence"
    /\ n_harm = 2
    /\ i_harm = 1
    /\ pc = "study"
    /\ k2 = 2
    /\ r = 0
    /\ points2 = NoGrid
    /\ refined = FALSE
    /\ circ_op = [k |-> 2, grid |-> 0]
    /\ P = ZerosWith(2, IncidentField)
    /\ xIn = xIn_convergence(1, P, NoSource)
    /\ P_inc = Empty
    /\ P_sca = Empty
    /\ Mr = 0
    /\ interp_funs = <<>>
    /\ X_AXIS = <<>>
    /\ xMinVals = NoSource
    /\ pickled = {}
    /\ grids = [g \in {0} |->
                  ShiftToStart(generatedomain(Dx0, DimL * Dx0, DimM * Dx0,
                                              DimN * Dx0))]
    /\ err = "none"
    /\ Mr_box = 0
    /\ vie = Empty

\* a source: a background level with two peaks on it
Peaked(bg, v1, e1, v2, e2) ==
    [v \in Vox |->
        Amp(SetMax({bg} \cup (IF v = v1 THEN {e1} ELSE {})
                         \cup (IF v = v2 THEN {e2} ELSE {})))]

\* entry of convergence_domain_size(f_rhs, mvp, ...)
DomainInit ==
    /\ CascadeIdle
    /\ OperatorIdle
    /\ MergeIdle
    /\ \E bg \in 0..MaxLevel, v1 \in Vox, e1 \in 0..MaxLevel,
          v2 \in Vox, e2 \in 0..MaxLevel :
            f_rhs = Peaked(bg, v1, e1, v2, e2)
    /\ i_tol = 0
    /\ dpc = "loop"
    /\ P_trim = [v \in Vox |-> 0]
    /\ boxIdx = <<>>
    /\ boxVals = <<>>
    /\ mvpArgs = <<>>

\* a pass that trims the source in place
TolStepInPlace ==
    /\ dpc = "loop"
    /\ i_tol < NTol
    /\ LET res == restrict_domain(f_rhs, TOL[i_tol + 1])
       IN  /\ ~res.raises
           /\ boxIdx' = Append(boxIdx, res.idx)
           /\ boxVals' = Append(boxVals, [xMin |-> res.xMin, xMax |-> res.xMax,
                                          yMin |-> res.yMin, yMax |-> res.yMax])
           /\ P_trim' = res.P_trim
           /\ f_rhs' = res.P_trim
           /\ mvpArgs' = Append(mvpArgs, res.P_trim)
    /\ i_tol' = i_tol + 1
    /\ UNCHANGED dpc
    /\ UNCHANGED cascadeVars
    /\ UNCHANGED operVars
    /\ UNCHANGED mergeVars

\* a pass that moves on by two tolerances
TolStepSkips ==
    /\ dpc = "loop"
    /\ i_tol < NTol
    /\ LET res == restrict_domain(f_rhs, TOL[i_tol + 1])
       IN  /\ ~res.raises
           /\ boxIdx' = Append(boxIdx, res.idx)
           /\ boxVals' = Append(boxVals, [xMin |-> res.xMin, xMax |-> res.xMax,
                                          yMin |-> res.yMin, yMax |-> res.yMax])
           /\ P_trim' = res.P_trim
           /\ mvpArgs' = Append(mvpArgs, res.P_trim)
    /\ i_tol' = IF i_tol + 2 <= NTol THEN i_tol + 2 ELSE i_tol + 1
    /\ UNCHANGED <<f_rhs, dpc>>
    /\ UNCHANGED cascadeVars
    /\ UNCHANGED operVars
    /\ UNCHANGED mergeVars

\* one pass of "for i_tol in range(TOL.shape[0])": restrict_domain, the four
\* records, xOut = mvp(xInVec), line_harmonic[i_tol, :] = line
TolStep ==
    /\ dpc = "loop"
    /\ i_tol < NTol
    /\ LET res == restrict_domain(f_rhs, TOL[i_tol + 1])
       IN  /\ ~res.raises
           /\ boxIdx' = Append(boxIdx, res.idx)
           /\ boxVals' = Append(boxVals, [xMin |-> res.xMin, xMax |-> res.xMax,
                                          yMin |-> res.yMin, yMax |-> res.yMax])
           /\ P_trim' = res.P_trim
           /\ mvpArgs' = Append(mvpArgs, res.P_trim)
    /\ i_tol' = i_tol + 1
    /\ UNCHANGED <<f_rhs, dpc>>
    /\ UNCHANGED cascadeVars
    /\ UNCHANGED operVars
    /\ UNCHANGED mergeVars

\* the same pass when restrict_domain raises
TolRaises ==
    /\ dpc = "loop"
    /\ i_tol < NTol
    /\ restrict_domain(f_rhs, TOL[i_tol + 1]).raises
    /\ dpc' = "raised"
    /\ UNCHANGED <<f_rhs, i_tol, P_trim, boxIdx, boxVals, mvpArgs>>
    /\ UNCHANGED cascadeVars
    /\ UNCHANGED operVars
    /\ UNCHANGED mergeVars

\* pickle.dump([line_harmonic, TOL, xMinVals, ...]); return xMinVals
Dump ==
    /\ dpc = "loop"
    /\ i_tol = NTol
    /\ dpc' = "returned"
    /\ pickled' = pickled \cup {i_harm + 1}
    /\ UNCHANGED <<f_rhs, i_tol, P_trim, boxIdx, boxVals, mvpArgs>>
    /\ UNCHANGED <<variant, n_harm, i_harm, pc, k2, r, points2, refined,
                   circ_op, xIn, P, P_inc, P_sca, Mr, interp_funs, X_AXIS,
                   xMinVals, grids, err, Mr_box, vie>>
    /\ UNCHANGED operVars
    /\ UNCHANGED mergeVars

DomainNext ==
    \/ TolStep
    \/ TolRaises
    \/ Dump

SpecDomain == DomainInit /\ [][DomainNext]_vars

---------------------------------------------------------------------------
(* The volume potential, on numbers                                        *)
(*                                                                         *)
(* A field is an integer per voxel of an OpL x OpM x OpN grid.   The    *)
(* product of two transforms followed by the inverse transform is the      *)
(* circular convolution of the padded arrays, which is what is computed    *)
(* here.                                                                   *)

\* the voxels of the grid
Cells == (0..(OpL - 1)) \X (0..(OpM - 1)) \X (0..(OpN - 1))

\* the index set of an array of twice the size along each axis
Cells2 == (0..(2 * OpL - 1)) \X (0..(2 * OpM - 1)) \X (0..(2 * OpN - 1))

RECURSIVE SumOver(_, _)
SumOver(f, S) ==
    IF S = {} THEN 0
    ELSE LET v == CHOOSE w \in S : TRUE
         IN  f[v] + SumOver(f, S \ {v})

\* toep_op = volume_potential(k, r): the kernel sampled at the offset of
\* every voxel from the first one; the samples are pairwise different, so
\* that a sample read at another offset shows
volume_potential(k) ==
    [d \in Cells |-> k * (1 + d[1] + OpL * d[2] + OpL * OpM * d[3])]

\* the kernel repeated with the period of the grid, without the mirrored half
circulant_embed_periodic(toep, L, M, N) ==
    [c \in Cells2 |-> toep[<<c[1] % L, c[2] % M, c[3] % N>>]]

\* circ_op = circulant_embed_fftw(toep_op, L, M, N): along each axis the
\* samples of the offsets 0..n-1, a zero, then the samples of n-1..1
circulant_embed_fftw(toep, L, M, N) ==
    LET fold(i, n) == IF i < n THEN i ELSE 2 * n - i
    IN  [c \in Cells2 |->
            IF c[1] = L \/ c[2] = M \/ c[3] = N THEN 0
            ELSE toep[<<fold(c[1], L), fold(c[2], M), fold(c[3], N)>>]]

\* apply: scale by the material mask, zero outside the region mask, pad to
\* twice the size, convolve circularly with the embedded kernel, extract the
\* original size, keep the voxels of the region mask
apply(circ, field, region_mask, material_mask) ==
    LET pad == [v \in Cells2 |->
                   IF v \in Cells /\ region_mask[v]
                   THEN material_mask[v] * field[v] ELSE 0]
        supp == {j \in Cells2 : pad[j] # 0}
        at(m, j) == <<(m[1] - j[1]) % (2 * OpL), (m[2] - j[2]) % (2 * OpM),
                      (m[3] - j[3]) % (2 * OpN)>>
        conv(m) == SumOver([j \in supp |-> circ[at(m, j)] * pad[j]], supp)
    IN  [m \in Cells |-> IF region_mask[m] THEN conv(m) ELSE 0]

mvp_volume_potential(x, circ, idx, MrMask) == apply(circ, x, idx, MrMask)

\* the modulus of the result
mvp_num_abs(x, circ) ==
    LET y == mvp_volume_potential(x, circ, [v \in Cells |-> TRUE],
                                  [v \in Cells |-> 1])
    IN  [v \in Cells |-> IF y[v] < 0 THEN 0 - y[v] ELSE y[v]]

\* idx = np.ones((L, M, N), dtype=bool); Mr = np.ones((L, M, N));
\* def mvp(x): return mvp_volume_potential(x, circ_op, idx, Mr)
mvp_num(x, circ) ==
    mvp_volume_potential(x, circ, [v \in Cells |-> TRUE], [v \in Cells |-> 1])

\* a field with the value a at the voxel v and zero elsewhere
Impulse(v, a) == [w \in Cells |-> IF w = v THEN a ELSE 0]

\* sa*f + sb*g
Combine(a, f, b, g) == [v \in Cells |-> a * f[v] + b * g[v]]

\* in front of the kernel assembly of a harmonic, with two fields to apply
\* the operator to
OperatorInit ==
    /\ CascadeIdle
    /\ DomainIdle
    /\ MergeIdle
    /\ \E k \in 2..3 : toep_op = volume_potential(k)
    /\ circ_emb = [v \in {} |-> 0]
    /\ \E v \in Cells, a \in {0, 1, -2} : f1 = Impulse(v, a)
    /\ \E v \in Cells, a \in {0, 1} : f2 = Impulse(v, a)
    /\ sa \in {1, -2}
    /\ sb \in {0, 3}
    /\ out1 = [v \in {} |-> 0]
    /\ out2 = [v \in {} |-> 0]
    /\ out12 = [v \in {} |-> 0]
    /\ opc = "embed"

\* circ_op = circulant_embed_fftw(toep_op, L, M, N)
Embed ==
    /\ opc = "embed"
    /\ circ_emb' = circulant_embed_fftw(toep_op, OpL, OpM, OpN)
    /\ opc' = "first"
    /\ UNCHANGED <<toep_op, f1, f2, sa, sb, out1, out2, out12>>
    /\ UNCHANGED cascadeVars
    /\ UNCHANGED domainVars
    /\ UNCHANGED mergeVars

\* mvp(f1)
ApplyFirst ==
    /\ opc = "first"
    /\ out1' = mvp_num(f1, circ_emb)
    /\ opc' = "second"
    /\ UNCHANGED <<toep_op, circ_emb, f1, f2, sa, sb, out2, out12>>
    /\ UNCHANGED cascadeVars
    /\ UNCHANGED domainVars
    /\ UNCHANGED mergeVars

\* mvp(f2)
ApplySecond ==
    /\ opc = "second"
    /\ out2' = mvp_num(f2, circ_emb)
    /\ opc' = "both"
    /\ UNCHANGED <<toep_op, circ_emb, f1, f2, sa, sb, out1, out12>>
    /\ UNCHANGED cascadeVars
    /\ UNCHANGED domainVars
    /\ UNCHANGED mergeVars

\* mvp(sa*f1 + sb*f2)
ApplyBoth ==
    /\ opc = "both"
    /\ out12' = mvp_num(Combine(sa, f1, sb, f2), circ_emb)
    /\ opc' = "applied"
    /\ UNCHANGED <<toep_op, circ_emb, f1, f2, sa, sb, out1, out2>>
    /\ UNCHANGED cascadeVars
    /\ UNCHANGED domainVars
    /\ UNCHANGED mergeVars

OperatorNext ==
    \/ Embed
    \/ ApplyFirst
    \/ ApplySecond
    \/ ApplyBoth

SpecOperator == OperatorInit /\ [][OperatorNext]_vars

---------------------------------------------------------------------------
(* The scattering solve and merge of one order, on numbers                 *)

\* the contrast without the subtraction
contrast_square(n) == n * n

\* refInd**2 - 1
contrast(n) == n * n - 1

\* idx_box: the voxels within the extremes of the scatterer along each axis
BoundingBox(S) ==
    {c \in Cells :
        \A a \in 1..3 : /\ SetMin({v[a] : v \in S}) <= c[a]
                        /\ c[a] <= SetMax({v[a] : v \in S})}

\* the scatterers tried: a slab between two planes x = lo and x = hi, a
\* single voxel, the first and last voxel together (a scatterer smaller
\* than its box) and two voxels on a diagonal near the first (a box between
\* the scatterer and the domain)
Scatterers ==
    ({{c \in Cells : lo <= c[1] /\ c[1] <= hi} :
        lo \in 0..(OpL - 1), hi \in 0..(OpL - 1)} \ {{}})
    \cup {{c} : c \in Cells}
    \cup {{<<0, 0, 0>>, <<OpL - 1, OpM - 1, OpN - 1>>}}
    \cup {{<<0, 0, 0>>, <<1, OpM - 1, 0>>}}

\* sol, J, u_sca = vie_solver(Mr_box, r_box, idx_scat_box, u_inc[idx_scat],
\* k): the induced sources an external iterative solve may return on the box
vie_solver(MrBox, box, inc) ==
    {[c \in box |-> 0], [c \in box |-> inc[c]],
     [c \in box |-> (1 + MrBox[c]) * inc[c]]}

\* mvp_potential_x_perm(J_domain, circ, idx_all, Mr)
mvp_potential_x_perm(x, circ, idx, MrMask) == apply(circ, x, idx, MrMask)

\* in front of the scattering solve of an order: the incident field of the
\* order is there
MergeInit ==
    /\ CascadeIdle
    /\ DomainIdle
    /\ OperatorIdle
    /\ refInd \in 1..2
    /\ idx_scat \in Scatterers
    /\ k_num \in 1..2
    /\ perm_box = [v \in {} |-> 0]
    /\ J = [v \in {} |-> 0]
    /\ T_circ = [v \in {} |-> 0]
    /\ perm = [v \in {} |-> 0]
    /\ J_domain = [v \in {} |-> 0]
    /\ \E v \in Cells, a \in {0, 2} :
           u_inc = [w \in Cells |-> IF w = v THEN 1 + a ELSE 1]
    /\ u_sca = [v \in {} |-> 0]
    /\ u_tot = [v \in {} |-> 0]
    /\ mpc = "solve"

\* Mr_box = zeros; Mr_box[idx_scat_box] = refInd**2 - 1; vie_solver(...)
SolveBox ==
    /\ mpc = "solve"
    /\ perm_box' = [c \in BoundingBox(idx_scat) |->
                       IF c \in idx_scat THEN contrast(refInd) ELSE 0]
    /\ J' \in vie_solver(perm_box', BoundingBox(idx_scat), u_inc)
    /\ mpc' = "kernel"
    /\ UNCHANGED <<refInd, idx_scat, k_num, T_circ, perm, J_domain, u_inc,
                   u_sca, u_tot>>
    /\ UNCHANGED cascadeVars
    /\ UNCHANGED domainVars
    /\ UNCHANGED operVars

\* T = k**2 * volume_potential(k, r); circ = circulant_embed_fftw(T, L, M, N)
AssembleT ==
    /\ mpc = "kernel"
    /\ T_circ' = circulant_embed_fftw(
                     [d \in Cells |-> k_num * k_num * volume_potential(k_num)[d]],
                     OpL, OpM, OpN)
    /\ mpc' = "extend"
    /\ UNCHANGED <<refInd, idx_scat, k_num, perm_box, J, perm, J_domain, u_inc,
                   u_sca, u_tot>>
    /\ UNCHANGED cascadeVars
    /\ UNCHANGED domainVars
    /\ UNCHANGED operVars

\* an extension that fills the voxels of the scatterer only
ExtendJScatterer ==
    /\ mpc = "extend"
    /\ perm' = [c \in Cells |-> IF c \in idx_scat THEN contrast(refInd) ELSE 0]
    /\ J_domain' = [c \in Cells |-> IF c \in idx_scat THEN J[c] ELSE 0]
    /\ mpc' = "evaluate"
    /\ UNCHANGED <<refInd, idx_scat, k_num, perm_box, J, T_circ, u_inc, u_sca,
                   u_tot>>
    /\ UNCHANGED cascadeVars
    /\ UNCHANGED domainVars
    /\ UNCHANGED operVars

\* Mr = zeros; Mr[idx_scat] = refInd**2 - 1; J_domain = zeros;
\* J_domain[idx_box] = J
ExtendJ ==
    /\ mpc = "extend"
    /\ perm' = [c \in Cells |-> IF c \in idx_scat THEN contrast(refInd) ELSE 0]
    /\ J_domain' = [c \in Cells |-> IF c \in DOMAIN J THEN J[c] ELSE 0]
    /\ mpc' = "evaluate"
    /\ UNCHANGED <<refInd, idx_scat, k_num, perm_box, J, T_circ, u_inc, u_sca,
                   u_tot>>
    /\ UNCHANGED cascadeVars
    /\ UNCHANGED domainVars
    /\ UNCHANGED operVars

\* P_sca[n] = mvp_potential_x_perm(J_domain, circ, idx_all, Mr)
EvaluateScattered ==
    /\ mpc = "evaluate"
    /\ u_sca' = mvp_potential_x_perm(J_domain, T_circ, [c \in Cells |-> TRUE],
                                     perm)
    /\ mpc' = "sum"
    /\ UNCHANGED <<refInd, idx_scat, k_num, perm_box, J, T_circ, perm, J_domain,
                   u_inc, u_tot>>
    /\ UNCHANGED cascadeVars
    /\ UNCHANGED domainVars
    /\ UNCHANGED operVars

\* P[n] = P_inc[n] + P_sca[n]
SumFields ==
    /\ mpc = "sum"
    /\ u_tot' = [c \in Cells |-> u_inc[c] + u_sca[c]]
    /\ mpc' = "merged"
    /\ UNCHANGED <<refInd, idx_scat, k_num, perm_box, J, T_circ, perm, J_domain,
                   u_inc, u_sca>>
    /\ UNCHANGED cascadeVars
    /\ UNCHANGED domainVars
    /\ UNCHANGED operVars

MergeNext ==
    \/ SolveBox
    \/ AssembleT
    \/ ExtendJ
    \/ EvaluateScattered
    \/ SumFields

SpecMerge == MergeInit /\ [][MergeNext]_vars

---------------------------------------------------------------------------
(* Properties of the cascade (specification Spec) *)

\* the entries of a history that have been assigned
Computed(h) == {m \in DOMAIN h : h[m] # ZeroField}

\* the products of a source term with their inner multiplicities
Products(src) == {<<t.i, t.j, t.mult>> : t \in src.terms}

\* the integer in front of P[i]*P[j] once the parentheses are multiplied out,
\* without the common sign
Coefficient(src, t) == (0 - src.scalar) * t.mult

\* 1 for a square, 2 for a cross term
Multiplicity(i, j) == IF i = j THEN 1 ELSE 2

\* every source term the cascade holds: the current one and those the stored
\* fields were computed from
SourcesSeen ==
    {xIn} \cup {P[m].src : m \in Computed(P)}
          \cup {P_inc[m].src : m \in Computed(P_inc)}

\* the source terms built by a branch of a ladder
BuiltSources == {src \in SourcesSeen : src.order >= 1}

\* C1: with unit beta, omega, rho and c the source term of order 1 is
\* -2 * P0*P0, of order 2 is -9 * P0*P1, of order 3 is -8 * (P1*P1 + 2*P0*P2)
\* and of order 4 is -25 * (P0*P3 + P1*P2), in every script; the homogeneous,
\* interpolating, sphere and slab scripts put no further factor on it.
C1_CouplingTable ==
    \A src \in BuiltSources :
        /\ src.order = 1 => src.scalar = -2 /\ Products(src) = {<<0, 0, 1>>}
        /\ src.order = 2 => src.scalar = -9 /\ Products(src) = {<<0, 1, 1>>}
        /\ src.order = 3 =>
              src.scalar = -8 /\ Products(src) = {<<1, 1, 1>>, <<0, 2, 2>>}
        /\ src.order = 4 =>
              src.scalar = -25 /\ Products(src) = {<<0, 3, 1>>, <<1, 2, 1>>}
        /\ variant # "symmetric" => src.weight = "none"

\* the slab script has stored the fourth harmonic: its source term has the
\* cross term with multiplicity 2
C1_Witness ==
    /\ variant = "slab"
    /\ 3 \in Computed(P)
    /\ P[3].src.order = 3
    /\ pc = "head"

\* C2 as claimed: the coefficient of P[i]*P[j] at order n is (n+1)^2 times
\* the multiplicity, 1 for i = j and 2 otherwise.
C2_WeightSquare ==
    \A src \in BuiltSources : \A t \in src.terms :
        Coefficient(src, t) = (src.order + 1) ^ 2 * Multiplicity(t.i, t.j)

\* C2 as the code has it: the coefficient of P[i]*P[j] at order n is
\* (n+1)^2 / 2 times the multiplicity, 1 for i = j and 2 otherwise.
C2_WeightHalfSquare ==
    \A src \in BuiltSources : \A t \in src.terms :
        2 * Coefficient(src, t) = (src.order + 1) ^ 2 * Multiplicity(t.i, t.j)

\* a source term with a square and a cross term has been built
C2_Witness ==
    /\ variant = "convergence"
    /\ xIn.order = 3
    /\ \E t, u \in xIn.terms : t.i = t.j /\ u.i # u.j
    /\ pc = "apply"

\* C3: the products of the source term of order n are exactly the unordered
\* pairs i <= j with i + j = n - 1, so every index read is below n and every
\* order 0..n-1 is read.
C3_AllPairs ==
    \A src \in BuiltSources :
        LET n == src.order
            pairs == {<<t.i, t.j>> : t \in src.terms}
        IN  /\ pairs = {<<i, j>> \in (0..n) \X (0..n) : i <= j /\ i + j = n - 1}
            /\ \A t \in src.terms : t.i < n /\ t.j < n
            /\ \A m \in 0..(n - 1) : \E t \in src.terms : t.i = m \/ t.j = m
            /\ Cardinality(src.terms) = Cardinality(pairs)

\* the six-branch ladder of the interpolating script has built its last
\* order, with three products
C3_Witness ==
    /\ variant = "interp"
    /\ Cardinality(xIn.terms) = 3
    /\ xIn.order = 6
    /\ i_harm = 6
    /\ pc = "apply"

\* the positions of an iteration after the refinement decision
AfterRefineDecision == pc \in {"kernel", "source", "study", "apply", "merge", "axis"}

\* C4 as claimed: the interpolating cascade refines at order n exactly when
\* n is one past a power of two (2, 3, 5, 9, ...).
C4_RefineOnePastPowerOfTwo ==
    (variant = "interp" /\ AfterRefineDecision) =>
        (refined <=> \E e \in 0..MaxHarm : i_harm = 2 ^ e + 1)

\* C4 as the code has it: the interpolating cascade refines at order n
\* exactly when n is a power of two other than 1 (2, 4, 8, ...); the other
\* scripts never refine.
C4_RefineAtPowerOfTwo ==
    /\ (variant = "interp" /\ AfterRefineDecision) =>
          (refined <=> \E e \in 1..MaxHarm : i_harm = 2 ^ e)
    /\ variant # "interp" => (r = 0 /\ ~refined)

\* the third refinement, at order 8
C4_Witness ==
    /\ variant = "interp"
    /\ i_harm = 8
    /\ refined
    /\ r = 3
    /\ pc = "kernel"

\* C5: at an order that refines, every operand of the source term is sampled
\* on the new grid when the source term is formed.
C5_RefinementBarrier ==
    (variant = "interp" /\ refined /\ pc \in {"apply", "axis"}) =>
        /\ xIn.order = i_harm
        /\ \A t \in xIn.terms : t.gi = r /\ t.gj = r

\* C6: an order without a branch in the ladder gets no field, and no field
\* is computed from the source term of another order.
C6_UnsupportedOrderFails ==
    /\ \A m \in Computed(P) : m >= 1 => m \in Tabulated(variant)
    /\ \A m \in Computed(P) : m >= 1 => P[m].src.order = m
    /\ \A m \in Computed(P_inc) : m >= 1 => P_inc[m].src.order = m

\* C7: a step leaves every computed entry of the history as it is, and a
\* step that changes the history adds the one entry of the order being
\* computed, right after the entries already there.
C7_AppendOnly ==
    [][/\ \A m \in Computed(P) : m \in DOMAIN P' /\ P'[m] = P[m]
       /\ P' # P =>
            /\ Computed(P') = Computed(P) \cup {i_harm}
            /\ i_harm \notin Computed(P)
            /\ Computed(P') = 0..i_harm]_vars

\* five entries, after the refinements at orders 2 and 4
C7_Witness ==
    /\ variant = "interp"
    /\ Computed(P) = 0..4
    /\ r = 2
    /\ pc = "axis"

---------------------------------------------------------------------------
(* Properties of the domain study (specification SpecDomain) *)

\* box b contains box a on every axis
BoxContains(b, a) ==
    /\ b.min_x <= a.min_x /\ a.max_x <= b.max_x
    /\ b.min_y <= a.min_y /\ a.max_y <= b.max_y
    /\ b.min_z <= a.min_z /\ a.max_z <= b.max_z

\* number of voxels of the bounding box
BoxVolume(b) ==
    (b.max_x - b.min_x + 1) * (b.max_y - b.min_y + 1) * (b.max_z - b.min_z + 1)

\* voxel v lies in the bounding box b, bounds included
InBox(v, b) ==
    /\ b.min_x <= v[1] /\ v[1] <= b.max_x
    /\ b.min_y <= v[2] /\ v[2] <= b.max_y
    /\ b.min_z <= v[3] /\ v[3] <= b.max_z

\* C8: for one source and tolerances ta > tb the bounding box of tb contains
\* the one of ta on every axis, so along the descending tolerances the box
\* volumes do not decrease; the recorded x and y bounds move the same way.
C8_BoxMonotone ==
    \A a, b \in 1..Len(boxIdx) :
        a < b =>
            /\ TOL[a] > TOL[b]
            /\ BoxContains(boxIdx[b], boxIdx[a])
            /\ BoxVolume(boxIdx[a]) <= BoxVolume(boxIdx[b])
            /\ boxVals[b].xMin <= boxVals[a].xMin
            /\ boxVals[a].xMax <= boxVals[b].xMax
            /\ boxVals[b].yMin <= boxVals[a].yMin
            /\ boxVals[a].yMax <= boxVals[b].yMax

\* a study whose box grew twice: three different volumes along the tolerances
C8_Witness ==
    /\ dpc = "returned"
    /\ Len(boxIdx) = NTol
    /\ \E a, b, c \in 1..Len(boxIdx) :
          /\ a < b /\ b < c
          /\ BoxVolume(boxIdx[a]) < BoxVolume(boxIdx[b])
          /\ BoxVolume(boxIdx[b]) < BoxVolume(boxIdx[c])

\* C9: the trimmed source equals the source at every voxel of the bounding
\* box of the voxels above the threshold and is zero outside it, so every
\* voxel above the threshold keeps its value.
C9_TrimKeepsBox ==
    Len(boxIdx) >= 1 =>
        LET b == boxIdx[Len(boxIdx)]
            tol == TOL[Len(boxIdx)]
        IN  /\ \A v \in Vox : P_trim[v] = IF InBox(v, b) THEN f_rhs[v] ELSE 0
            /\ \A v \in where_bigger(f_rhs, tol) : P_trim[v] = f_rhs[v]

\* C10: the operator is never applied to a trimmed source that kept no voxel:
\* a study records a result only for a trimmed source that is not all zero.
C10_EmptyBoxIsFatal ==
    \A i \in 1..Len(mvpArgs) : \E v \in Vox : mvpArgs[i][v] # 0

\* C11 as stated: after a refinement the far boundary of the new grid along x
\* is within one new spacing of the far boundary of the grid before it, with
\* the far boundary read as the last voxel centre or as the outer face of the
\* last voxel
C11_FarBoundaryWithinNewSpacing ==
    \A g \in DOMAIN grids :
        g > 0 =>
            \/ grids[g - 1].xN - grids[g].xN \in
                   (0 - grids[g].dx)..grids[g].dx
            \/ FarFace(grids[g - 1]) - FarFace(grids[g]) \in
                   (0 - grids[g].dx)..grids[g].dx

\* C11: after a refinement the outer face of the last voxel of the new grid
\* lies exactly one spacing of the grid before it (two new spacings) inside
\* that grid's outer face, and the last voxel centre one and a half new
\* spacings inside its last voxel centre
C11_FarEndOnePriorSpacingInside ==
    \A g \in DOMAIN grids :
        g > 0 =>
            /\ FarFace(grids[g]) = FarFace(grids[g - 1]) - grids[g - 1].dx
            /\ 2 * (grids[g - 1].xN - grids[g].xN) = 3 * grids[g].dx
            /\ 2 * grids[g].dx = grids[g - 1].dx

C11_Witness ==
    /\ variant = "interp"
    /\ r = 2
    /\ grids[0].L = MaxVox
    /\ pc = "done"

\* C12 as stated: a harmonic is produced only from a source term whose
\* operands all live on the grid the kernel was assembled on; a step whose
\* source term holds a field of another grid fails instead
C12_GridMismatchIsFatal ==
    \A m \in Computed(P) :
        \A t \in P[m].src.terms :
            t.gi = P[m].kgrid /\ t.gj = P[m].kgrid

\* the orders up to the one in progress at which the run has failed: an order
\* without a branch in the ladder, or the order at which an error was raised
FailedOrders ==
    {n \in 1..i_harm : n \notin Tabulated(variant)} \cup
    (IF err # "none" THEN {i_harm} ELSE {})

\* an error that was raised ends the run with the history as it was when
\* the order began
RaisedErrorAborts ==
    (err # "none") =>
        /\ pc = "crashed"
        /\ Computed(P) = 0..(i_harm - 1)

\* C13: once an order n has failed no field of an order m >= n is computed
\* or stored, so the history holds fields of orders below n only
C13_FailureAbortsCascade ==
    \A n \in FailedOrders :
        /\ \A m \in Computed(P) : m < n
        /\ \A m \in Computed(P_inc) : m < n

\* C14: a query of an interpolator at a point outside its axes yields a
\* fallback value and the remap goes on; no run ends in such a query
C14_OutOfDomainFallsBack ==
    (variant = "interp" /\ pc = "crashed") =>
        ~InterpRaises(variant, i_harm, interp_funs, points2, grids)

\* the offset between two voxels, axis by axis
Offset(m, v) ==
    LET abs(i) == IF i < 0 THEN 0 - i ELSE i
    IN  <<abs(m[1] - v[1]), abs(m[2] - v[2]), abs(m[3] - v[3])>>

\* C15: applied to a field with a single nonzero voxel, the operator gives at
\* every voxel the amplitude times the kernel sample of the offset between
\* that voxel and the nonzero one; no sample of another offset comes in
\* through the periodicity of the embedding
C15_ImpulseResponse ==
    opc \in {"second", "both", "applied"} =>
        \A v \in Cells :
            (f1[v] # 0 /\ \A w \in Cells \ {v} : f1[w] = 0) =>
                \A m \in Cells : out1[m] = f1[v] * toep_op[Offset(m, v)]

\* the impulse in the last voxel, read at the first
C15_Witness ==
    /\ opc = "applied"
    /\ f1[<<OpL - 1, OpM - 1, OpN - 1>>] # 0
    /\ out1[<<0, 0, 0>>] =
           f1[<<OpL - 1, OpM - 1, OpN - 1>>] *
           toep_op[<<OpL - 1, OpM - 1, OpN - 1>>]

\* C16: with the all-true region mask and the unit material mask the
\* operator maps sa*f1 + sb*f2 to sa times its value on f1 plus sb times its
\* value on f2, and a field of zeros to a field of zeros
C16_Linear ==
    opc = "applied" =>
        /\ \A m \in Cells : out12[m] = sa * out1[m] + sb * out2[m]
        /\ (\A v \in Cells : f1[v] = 0) => (\A m \in Cells : out1[m] = 0)
        /\ (\A v \in Cells : f2[v] = 0) => (\A m \in Cells : out2[m] = 0)

\* two impulses in different voxels, both scalars nonzero, one negative
C16_Witness ==
    /\ opc = "applied"
    /\ sa < 0
    /\ sb > 0
    /\ \E v, w \in Cells : v # w /\ f1[v] # 0 /\ f2[w] # 0
    /\ \E m \in Cells : out12[m] < 0

\* C17: with a scatterer of refractive index 1, so of contrast 0 at every
\* voxel, the merge gives a total field equal to the incident field at every
\* voxel, whatever source the solve returned
C17_ZeroContrastIsTransparent ==
    (mpc = "merged" /\ refInd = 1) =>
        \A c \in Cells : u_tot[c] = u_inc[c]

\* a merge at refractive index 1 where the solve returned a nonzero source
C17_Witness ==
    /\ mpc = "merged"
    /\ refInd = 1
    /\ \A c \in Cells : perm[c] = 0
    /\ \E c \in Cells : J_domain[c] # 0
    /\ BoundingBox(idx_scat) # idx_scat

\* C18 as stated: in every scattering cascade the solve of an order n >= 1
\* and its scattered field use the contrast set, in the box array and in the
\* domain array, at the frequency (n+1)*f1 of that order
C18_ContrastPerOrder ==
    \A n \in DOMAIN vie :
        n >= 1 =>
            /\ vie[n].Mr_box = n + 1
            /\ P_sca[n].Mr = n + 1

\* C19: how the iterative solve ended reaches the script at every order: no
\* solve that did not converge goes into the history unnoticed
C19_SolverStatusReachesCaller ==
    \A n \in DOMAIN vie :
        vie[n].info = "not converged" => vie[n].seen = "not converged"

LevelAt(v, m) ==
    IF v = "interp" THEN Cardinality({n \in 2..m : RefinesAt(n)}) ELSE 0

\* C21: the kernel a field of order n >= 1 was computed with has the
\* wavenumber of harmonic number n+1 and was assembled on the grid in force
\* at order n, after the refinement of that order if there is one; from the
\* kernel assembly of an iteration to its matrix-vector product the kernel
\* held is the one of that iteration
C21_KernelOfThisStep ==
    /\ \A m \in Computed(P) :
           m >= 1 =>
               /\ P[m].k = m + 1
               /\ P[m].kgrid = LevelAt(variant, m)
               /\ P[m].grid = P[m].kgrid
    /\ pc \in {"source", "study", "apply"} =>
           circ_op = [k |-> i_harm + 1, grid |-> r]

\* the interpolating script at its end: the fifth harmonic was computed with
\* the kernel of the twice refined grid
C21_Witness ==
    /\ variant = "interp"
    /\ pc = "done"
    /\ 4 \in Computed(P)
    /\ P[4].kgrid = 2
    /\ P[4].k = 5

\* C22: in the interpolating script, between two iterations the history, the
\* list of interpolators and the list of on-axis coordinates have i_harm + 1
\* entries each; the interpolator and the on-axis coordinates of order i are
\* those of the grid the field of order i was computed on, and that grid is
\* kept with the voxel counts the field has when later refinements replace
\* the current grid
C22_EntryKeepsItsGrid ==
    (variant = "interp" /\ pc \in {"head", "done"}) =>
        /\ DOMAIN P = 0..i_harm
        /\ Len(interp_funs) = i_harm + 1
        /\ Len(X_AXIS) = i_harm + 1
        /\ \A i \in DOMAIN P :
               /\ interp_funs[i + 1].order = i
               /\ interp_funs[i + 1].grid = P[i].grid
               /\ X_AXIS[i + 1] = P[i].grid
               /\ P[i].grid \in DOMAIN grids
               /\ P[i].grid = LevelAt(variant, i)
               /\ Shape(grids, interp_funs[i + 1].grid) = Shape(grids, P[i].grid)

\* five entries on three grids
C22_Witness ==
    /\ variant = "interp"
    /\ pc = "done"
    /\ Len(interp_funs) = 5
    /\ interp_funs[1].grid = 0
    /\ interp_funs[4].grid = 1
    /\ interp_funs[5].grid = 2
    /\ r = 2

\* C23: the grid of refinement level g has the spacing of the first grid
\* divided by 2^g and each of its three extents divided by 2^g, the same
\* ratio of extent to spacing on every axis as the first grid, and the same
\* voxel counts L, M, N
C23_RefinementHalves ==
    \A g \in DOMAIN grids :
        /\ grids[g].dx * 2 ^ g = grids[0].dx
        /\ grids[g].wx * 2 ^ g = grids[0].wx
        /\ grids[g].wy * 2 ^ g = grids[0].wy
        /\ grids[g].wz * 2 ^ g = grids[0].wz
        /\ grids[g].wx * grids[0].dx = grids[0].wx * grids[g].dx
        /\ grids[g].wy * grids[0].dx = grids[0].wy * grids[g].dx
        /\ grids[g].wz * grids[0].dx = grids[0].wz * grids[g].dx
        /\ Shape(grids, g) = Shape(grids, 0)

\* three refinements of a grid with different voxel counts along x and y
C23_Witness ==
    /\ variant = "interp"
    /\ r = 3
    /\ DOMAIN grids = 0..3
    /\ grids[0].L # grids[0].M
    /\ grids[3].dx * 8 = Dx0
    /\ pc = "done"

\* C24 as stated: whatever the first grid, the voxel centres of a grid lie on
\* all three axes within the range of the voxel centres of every grid of a
\* lower refinement level
C24_NewGridInsideEveryOldGrid ==
    \A g \in DOMAIN grids : \A h \in DOMAIN grids :
        h < g => InDomain(grids[g], grids[h])

\* C24: when the first grid has at least three voxels along x, the voxel
\* centres of a grid lie on all three axes within the range of the voxel
\* centres of every grid of a lower refinement level, after any number of
\* refinements, and no query of an interpolator raises
C24_NewGridInsideOldGrids ==
    grids[0].L >= 3 =>
        /\ \A g \in DOMAIN grids : \A h \in DOMAIN grids :
               h < g => InDomain(grids[g], grids[h])
        /\ err # "bounds"

\* three refinements of a grid of three voxels along x, the interpolated
\* orders behind
C24_Witness ==
    /\ variant = "interp"
    /\ grids[0].L = 3
    /\ r = 3
    /\ 3 \in Computed(P)
    /\ pc = "done"

\* C25: the tolerances of TOL are strictly descending; after i_tol passes of
\* the study there is one record per tolerance passed, the i-th holding the
\* bounds of the box of TOL[i] and the operator having been applied to the
\* source trimmed to that box; a study that returns has gone through all the
\* tolerances and has saved its records under the harmonic number of the
\* order; between two iterations of the study script the harmonic numbers
\* saved are those of the orders computed so far
C25_OneRecordPerTolerance ==
    /\ \A i \in 1..(Len(TOL) - 1) : TOL[i] > TOL[i + 1]
    /\ Len(boxIdx) = i_tol /\ Len(boxVals) = i_tol /\ Len(mvpArgs) = i_tol
    /\ \A i \in 1..i_tol :
           LET res == restrict_domain(f_rhs, TOL[i])
           IN  /\ ~res.raises
               /\ boxIdx[i] = res.idx
               /\ boxVals[i] = [xMin |-> res.xMin, xMax |-> res.xMax,
                                yMin |-> res.yMin, yMax |-> res.yMax]
               /\ mvpArgs[i] = res.P_trim
    /\ dpc = "returned" => (i_tol = NTol /\ pickled = {i_harm + 1})
    /\ (variant = "convergence" /\ pc \in {"head", "done"}) =>
           pickled = {m + 1 : m \in 1..i_harm}

\* a study that returned with records of different boxes
C25_Witness ==
    /\ dpc = "returned"
    /\ Len(boxVals) = NTol
    /\ boxIdx[1] # boxIdx[NTol]
    /\ pickled = {2}

\* C26: no step of the study changes the source term it was given, the
\* kernel, the grid or an entry of the history, so the matrix-vector product
\* that follows the study is applied to what the ladder built
C26_StudyLeavesCascade ==
    [][(pc = "study" \/ dpc = "loop") =>
           /\ f_rhs' = f_rhs
           /\ xIn' = xIn
           /\ circ_op' = circ_op
           /\ grids' = grids
           /\ P' = P]_vars

\* a study that has trimmed its source to a smaller box and returned
C26_Witness ==
    /\ dpc = "returned"
    /\ \E i \in 1..Len(mvpArgs) : mvpArgs[i] # f_rhs
    /\ P_trim # f_rhs
    /\ xIn = xIn_convergence(1, P, NoSource)

\* C27: once the source is extended, it is zero at every voxel outside the
\* bounding box of the scatterer and is the box solution at every voxel of
\* the box; the scattered field is the potential of that extended source
\* over the whole domain, and after the merge the total field is the
\* incident plus the scattered field at every voxel
C27_ExtendThenSum ==
    /\ mpc \in {"evaluate", "sum", "merged"} =>
           /\ DOMAIN J = BoundingBox(idx_scat)
           /\ DOMAIN J_domain = Cells
           /\ \A c \in Cells :
                  J_domain[c] = IF c \in BoundingBox(idx_scat) THEN J[c] ELSE 0
    /\ mpc \in {"sum", "merged"} =>
           u_sca = mvp_potential_x_perm(J_domain, T_circ,
                                        [c \in Cells |-> TRUE], perm)
    /\ mpc = "merged" =>
           /\ DOMAIN u_tot = Cells
           /\ \A c \in Cells : u_tot[c] = u_inc[c] + u_sca[c]

\* a merge whose box lies between the scatterer and the domain, with a
\* source on a box voxel outside the scatterer and a scattered field outside
\* the box
C27_Witness ==
    /\ mpc = "merged"
    /\ BoundingBox(idx_scat) # idx_scat
    /\ BoundingBox(idx_scat) # Cells
    /\ \E c \in BoundingBox(idx_scat) \ idx_scat : J_domain[c] # 0
    /\ \E c \in Cells \ BoundingBox(idx_scat) :
           /\ J_domain[c] = 0
           /\ u_tot[c] # u_inc[c]

\* twice the coefficients the pattern gives at order n: (n+1)^2 for a
\* square, 2*(n+1)^2 for a cross term, over the pairs i <= j, i + j = n - 1
PatternTwice(n) ==
    {<<i, j, (n + 1) ^ 2 * Multiplicity(i, j)>> :
        <<i, j>> \in {q \in (0..n) \X (0..n) : q[1] <= q[2] /\ q[1] + q[2] = n - 1}}

\* C28: every source term a ladder builds is of an order 1..6, carries the
\* sign -1, and the coefficients of its products are those of the pattern,
\* (n+1)^2/2 for P[i]*P[i] and (n+1)^2 for P[i]*P[j], i # j; order 5 is
\* -18*(2*P0*P4 + 2*P1*P3 + P2^2) and order 6 is -49*(P0*P5 + P1*P4 + P2*P3)
C28_OnePatternToOrderSix ==
    \A src \in BuiltSources :
        /\ src.order \in 1..6
        /\ src.scalar < 0
        /\ \A t \in src.terms : t.mult > 0
        /\ {<<t.i, t.j, 2 * Coefficient(src, t)>> : t \in src.terms}
               = PatternTwice(src.order)
        /\ src.order = 5 =>
               /\ src.scalar = -18
               /\ Products(src) = {<<0, 4, 2>>, <<1, 3, 2>>, <<2, 2, 1>>}
        /\ src.order = 6 =>
               /\ src.scalar = -49
               /\ Products(src) = {<<0, 5, 1>>, <<1, 4, 1>>, <<2, 3, 1>>}

\* the interpolating script has run through order 6: the field of order 5
\* came from a source term with a square, that of order 6 from cross terms
C28_Witness ==
    /\ variant = "interp"
    /\ pc = "done"
    /\ 5 \in Computed(P)
    /\ 6 \in Computed(P)
    /\ P[5].src.order = 5
    /\ \E t \in P[5].src.terms : t.i = t.j
    /\ P[6].src.order = 6
    /\ \A t \in P[6].src.terms : t.i # t.j

\* C29: in the sphere and slab scripts every product of a source term has
\* both operands read from the history of total fields, and a step that
\* forms the source term of order n finds the scattered field of every order
\* below n stored and the total field of that order equal to the incident
\* plus that scattered field
C29_SourceFromTotalFields ==
    /\ [](variant \in ScatterVariants =>
             \A src \in BuiltSources : \A t \in src.terms :
                 t.parti = "total" /\ t.partj = "total")
    /\ [][(variant \in ScatterVariants /\ pc = "source") =>
              \A m \in 0..(i_harm - 1) :
                  /\ m \in Computed(P_inc)
                  /\ m \in Computed(P_sca)
                  /\ P_sca[m].part = "scattered"
                  /\ P[m] = Total(P_inc[m], P_sca[m])]_vars

\* the slab script has formed the source term of order 3 from the total
\* fields of orders 0, 1 and 2
C29_Witness ==
    /\ variant = "slab"
    /\ pc = "apply"
    /\ i_harm = 3
    /\ xIn.order = 3
    /\ \A t \in xIn.terms : t.parti = "total" /\ t.partj = "total"
    /\ 2 \in Computed(P_sca)
    /\ P_inc[2] # P[2]

\* C30: a step changes the grid in force, the grids generated so far or the
\* query points only in the refinement branch of the interpolating script at
\* an order that is a power of two other than 1; a grid once generated keeps
\* its coordinates, spacing, extents and dimensions; the field of order 1 is
\* computed, kernel included, on the grid of the incident field
C30_GridKeptWithoutRefinement ==
    /\ [][(grids' # grids \/ r' # r \/ points2' # points2) =>
              /\ variant = "interp"
              /\ pc = "refine"
              /\ i_harm # 1
              /\ is_power_of_two(i_harm)]_vars
    /\ [][\A g \in DOMAIN grids :
              g \in DOMAIN grids' /\ grids'[g] = grids[g]]_vars
    /\ []((variant = "interp" /\ 1 \in Computed(P)) =>
              /\ P[1].grid = 0
              /\ P[1].kgrid = 0
              /\ P[1].grid = P[0].grid)

\* order 3 of the interpolating script has passed the branch: the grid is
\* the one order 2 refined to
C30_Witness ==
    /\ variant = "interp"
    /\ i_harm = 3
    /\ pc = "kernel"
    /\ ~refined
    /\ r = 1
    /\ DOMAIN grids = 0..1
    /\ 1 \in Computed(P)
    /\ P[1].grid = 0

=============================================================================
